---- MODULE Spec2Model ----
(***************************************************************************)
(* DevOps Info Service (app_python/src/app.py): a FastAPI application with *)
(* two GET handlers ("/" and "/health"), a custom 404 handler and a custom *)
(* 500 handler, behind a CORS middleware.                                  *)
(*                                                                         *)
(* Time is counted in ticks, TicksPerSecond of them to the second, since   *)
(* midnight of day 0 (UTC).  A path is the sequence of its segments after  *)
(* the leading "/": "/" is <<"">>, "/health" is <<"health">>, "/health/"   *)
(* is <<"health", "">>.  A formatted string (an f-string, isoformat) is    *)
(* the sequence of its pieces.  An optional value (None in the code) is    *)
(* the empty sequence, a present one a sequence of length one.             *)
(***************************************************************************)
EXTENDS Integers, Sequences, FiniteSets, TLC

\* Resolution of the modelled wall clock.
TicksPerSecond == 2
\* How many times the wall clock may change in one behaviour.
MaxClockMoves == 2

SecondsPerHour == 3600
SecondsPerMinute == 60

VARIABLES
    now,          \* the system's UTC wall clock: what datetime.now(timezone.utc) returns
    START_TIME,   \* module global START_TIME
    moves,        \* number of clock changes so far (bounds the behaviour)
    request,      \* the request most recently dispatched to the application
    response      \* the response the application sent for it

vars == <<now, START_TIME, moves, request, response>>

-----------------------------------------------------------------------------
(* Requests *)

None == <<>>

PathRoot == <<"">>
PathHealth == <<"health">>
PathHealthSlash == <<"health", "">>
PathDocs == <<"docs">>
PathRedoc == <<"redoc">>
PathOpenapi == <<"openapi.json">>
PathMissing == <<"missing">>

Paths == {PathRoot, PathHealth, PathHealthSlash, PathDocs, PathRedoc, PathOpenapi, PathMissing}

Methods == {"GET", "POST", "OPTIONS"}

NoHeaders == [h \in {} |-> ""]

\* The headers of a preflight request the CORS configuration allows.
PreflightHeaders ==
    ("user-agent" :> "Mozilla/5.0") @@ ("origin" :> "https://ui.example")
        @@ ("access-control-request-method" :> "POST")

HeaderSets ==
    { NoHeaders,
      ("user-agent" :> ""),
      ("user-agent" :> "curl/8.0"),
      ("user-agent" :> "Mozilla/5.0") @@ ("origin" :> "https://ui.example"),
      PreflightHeaders,
      ("origin" :> "https://ui.example") @@ ("access-control-request-method" :> "PURGE") }

Clients == {None, <<"10.0.0.7">>}

\* The requests sent to the application: every method on every path, bare and
\* with the preflight headers; every header set from every client on GET /;
\* every header set on OPTIONS to a registered and to an unregistered path.
Requests ==
    [method : Methods, path : Paths, headers : {NoHeaders, PreflightHeaders},
     client : {<<"10.0.0.7">>}]
    \cup [method : {"GET"}, path : {PathRoot}, headers : HeaderSets, client : Clients]
    \cup [method : {"OPTIONS"}, path : {PathRoot, PathMissing}, headers : HeaderSets,
          client : {None}]

NoRequest == [method |-> "", path |-> <<>>, headers |-> NoHeaders, client |-> None]

NoResponse == [status |-> 0, body |-> [kind |-> "none"]]

\* Starlette's Headers.get(name, default)
HeaderGet(headers, name, default) ==
    IF name \in DOMAIN headers THEN headers[name] ELSE default

-----------------------------------------------------------------------------
(* The clock *)

\* Instants at which the process may be started: noon of day 1, and half a
\* second before the midnight that ends day 1.
InitTimes ==
    { (24 + 12) * SecondsPerHour * TicksPerSecond,
      48 * SecondsPerHour * TicksPerSecond - 1 }

\* Changes of the wall clock between two readings: time passing (a tick, just
\* under a minute, an hour) and the clock being set back (NTP step, operator).
ClockSteps ==
    { 1,
      SecondsPerMinute * TicksPerSecond - 1,
      SecondsPerHour * TicksPerSecond,
      -1,
      -(SecondsPerHour * TicksPerSecond) }

\* Time that may pass between the two clock readings of one handler.
HandlerElapsed == {0, 1}

\* int(delta.total_seconds()): int() truncates toward zero
IntTotalSeconds(delta) ==
    IF delta >= 0
    THEN delta \div TicksPerSecond
    ELSE -((-delta) \div TicksPerSecond)

\* datetime.isoformat() of an aware UTC datetime; the fraction is left out
\* when it is zero.  The date is the day number (no calendar is modelled).
isoformat(t) ==
    LET ticksPerDay == 24 * SecondsPerHour * TicksPerSecond
        day == t \div ticksPerDay
        tod == t % ticksPerDay
        sec == tod \div TicksPerSecond
        frac == tod % TicksPerSecond
        hms == << day, "T", sec \div SecondsPerHour,
                  (sec % SecondsPerHour) \div SecondsPerMinute,
                  sec % SecondsPerMinute >>
    IN  IF frac = 0
        THEN hms \o <<"+00:00">>
        ELSE hms \o <<".", frac, "+00:00">>

\* get_uptime(), with t the value datetime.now(timezone.utc) returns at line 49
get_uptime(t) ==
    LET delta == t - START_TIME
        seconds == IntTotalSeconds(delta)
        hours == seconds \div SecondsPerHour
        minutes == (seconds % SecondsPerHour) \div SecondsPerMinute
    IN  [seconds |-> seconds, human |-> <<hours, " hours, ", minutes, " minutes">>]

-----------------------------------------------------------------------------
(* Handlers *)

\* health_check with the timestamp taken from START_TIME instead of the clock.
health_check_start_timestamp(t1, t2) ==
    LET uptime_info == get_uptime(t1)
    IN  [kind |-> "health",
         status |-> "healthy",
         timestamp |-> isoformat(START_TIME),
         uptime_seconds |-> uptime_info.seconds]

\* health_check(): t1 is the clock reading inside get_uptime(), t2 the one
\* that is formatted as the timestamp.
health_check(t1, t2) ==
    LET uptime_info == get_uptime(t1)
    IN  [kind |-> "health",
         status |-> "healthy",
         timestamp |-> isoformat(t2),
         uptime_seconds |-> uptime_info.seconds]

-----------------------------------------------------------------------------
\* What the operating environment reports to os.cpu_count(): None or a count.
CpuCounts == {None, <<4>>}

\* What an unhandled exception raised inside a handler may be
\* (socket.gethostname() raises OSError when the host name cannot be read).
Exceptions ==
    { "OSError: [Errno 14] Bad address",
      "OSError: [Errno 36] File name too long: /etc/hostname" }

\* The "service" section of the response (lines 69-74)
ServiceSection ==
    [name |-> "devops-info-service",
     version |-> "1.0.0",
     description |-> "DevOps course info service",
     framework |-> "FastAPI"]

\* The "system" section (lines 75-82); cpu is the value of os.cpu_count(),
\* and "os.cpu_count() or 0" replaces None (and 0) by 0.
SystemSection(cpu) ==
    [hostname |-> "web-1",
     platform |-> "Linux",
     platform_version |-> "#1 SMP",
     architecture |-> "x86_64",
     cpu_count |-> IF cpu = None THEN 0 ELSE cpu[1],
     python_version |-> "3.12.0"]

\* The "runtime" section (lines 83-88)
RuntimeSection(t1, t2) ==
    LET uptime_info == get_uptime(t1)
    IN  [uptime_seconds |-> uptime_info.seconds,
         uptime_human |-> uptime_info.human,
         current_time |-> isoformat(t2),
         timezone |-> "UTC"]

\* The "request" section with the default applied to an empty header as well
\* (headers.get("user-agent") or "unknown").
RequestSection_or_unknown(r) ==
    LET ua == HeaderGet(r.headers, "user-agent", "")
    IN  [client_ip |-> IF r.client # None THEN r.client[1] ELSE "unknown",
         user_agent |-> IF ua = "" THEN "unknown" ELSE ua,
         method |-> r.method,
         path |-> r.path]

\* The "request" section (lines 89-94)
RequestSection(r) ==
    [client_ip |-> IF r.client # None THEN r.client[1] ELSE "unknown",
     user_agent |-> HeaderGet(r.headers, "user-agent", "unknown"),
     method |-> r.method,
     path |-> r.path]

\* The "endpoints" list with its first two entries exchanged.
EndpointsSection_health_first ==
    << [path |-> "/health", method |-> "GET", description |-> "Health check"],
       [path |-> "/", method |-> "GET", description |-> "Service information"],
       [path |-> "/docs", method |-> "GET", description |-> "OpenAPI documentation"],
       [path |-> "/redoc", method |-> "GET", description |-> "ReDoc documentation"] >>

\* The "endpoints" list (lines 95-100)
EndpointsSection ==
    << [path |-> "/", method |-> "GET", description |-> "Service information"],
       [path |-> "/health", method |-> "GET", description |-> "Health check"],
       [path |-> "/docs", method |-> "GET", description |-> "OpenAPI documentation"],
       [path |-> "/redoc", method |-> "GET", description |-> "ReDoc documentation"] >>

\* get_service_information(request): t1 is the clock reading inside
\* get_uptime(), t2 the one formatted as current_time, cpu the value of
\* os.cpu_count().
get_service_information(r, t1, t2, cpu) ==
    [kind |-> "service_information",
     service |-> ServiceSection,
     system |-> SystemSection(cpu),
     runtime |-> RuntimeSection(t1, t2),
     request |-> RequestSection(r),
     endpoints |-> EndpointsSection]

\* not_found_handler with the method in the message instead of the path.
not_found_handler_names_method(r) ==
    [status |-> 404,
     body |-> [kind |-> "error",
               error |-> "Not Found",
               message |-> <<"The requested endpoint ", <<r.method>>, " does not exist">>,
               available_endpoints |-> <<"/", "/health", "/docs", "/redoc">>]]

\* not_found_handler(request, exc)
not_found_handler(r) ==
    [status |-> 404,
     body |-> [kind |-> "error",
               error |-> "Not Found",
               message |-> <<"The requested endpoint ", r.path, " does not exist">>,
               available_endpoints |-> <<"/", "/health", "/docs", "/redoc">>]]

\* internal_error_handler with the exception's text as the message.
internal_error_handler_leaks(r, exc) ==
    [status |-> 500,
     body |-> [kind |-> "error",
               error |-> "Internal Server Error",
               message |-> <<exc>>]]

\* internal_error_handler(request, exc)
internal_error_handler(r, exc) ==
    [status |-> 500,
     body |-> [kind |-> "error",
               error |-> "Internal Server Error",
               message |-> <<"An unexpected error occurred. Please try again later.">>]]

-----------------------------------------------------------------------------
(* The framework around the handlers, as the application configures it *)

\* CORSMiddleware with allow_methods=["*"]: the methods it allows.
AllMethods == {"DELETE", "GET", "HEAD", "OPTIONS", "PATCH", "POST", "PUT"}

\* CORSMiddleware answers a preflight request itself: an OPTIONS request that
\* carries Origin and Access-Control-Request-Method.  Every other request is
\* passed on to the router.
IsPreflight(r) ==
    /\ "origin" \in DOMAIN r.headers
    /\ r.method = "OPTIONS"
    /\ "access-control-request-method" \in DOMAIN r.headers

\* CORSMiddleware.preflight_response with allow_origins=["*"],
\* allow_methods=["*"], allow_headers=["*"]
preflight_response(r) ==
    IF r.headers["access-control-request-method"] \in AllMethods
    THEN [status |-> 200, body |-> [kind |-> "text", text |-> "OK"]]
    ELSE [status |-> 400, body |-> [kind |-> "text", text |-> "Disallowed CORS method"]]

\* The routes of the application, in the order they are added: FastAPI adds
\* the OpenAPI schema and the two documentation pages (docs_url, redoc_url)
\* when the application object is built, the decorators add "/" and
\* "/health" with the method GET alone.
Routes ==
    << [path |-> PathOpenapi, methods |-> {"GET", "HEAD"}, endpoint |-> "openapi"],
       [path |-> PathDocs, methods |-> {"GET", "HEAD"}, endpoint |-> "swagger_ui_html"],
       [path |-> <<"docs", "oauth2-redirect">>, methods |-> {"GET", "HEAD"},
        endpoint |-> "swagger_ui_redirect"],
       [path |-> PathRedoc, methods |-> {"GET", "HEAD"}, endpoint |-> "redoc_html"],
       [path |-> PathRoot, methods |-> {"GET"}, endpoint |-> "get_service_information"],
       [path |-> PathHealth, methods |-> {"GET"}, endpoint |-> "health_check"] >>

\* Route.matches: "NONE" when the path differs, "PARTIAL" when the path
\* matches and the method does not, "FULL" otherwise.
Match(route, method, path) ==
    IF route.path # path THEN "NONE"
    ELSE IF method \in route.methods THEN "FULL"
    ELSE "PARTIAL"

\* str.rstrip("/") on a path
RECURSIVE RStripSlash(_)
RStripSlash(path) ==
    IF path = <<>> THEN <<>>
    ELSE IF path[Len(path)] = "" THEN RStripSlash(SubSeq(path, 1, Len(path) - 1))
    ELSE path

\* The path the router tries when nothing matched (redirect_slashes)
ToggleSlash(path) ==
    IF path[Len(path)] = "" THEN RStripSlash(path) ELSE Append(path, "")

\* A router that matches on the path alone and serves any method.
Router_path_only(r) ==
    LET full == {i \in DOMAIN Routes : Match(Routes[i], r.method, r.path) # "NONE"}
        toggled == {i \in DOMAIN Routes :
                        Match(Routes[i], r.method, ToggleSlash(r.path)) # "NONE"}
    IN  IF full # {}
        THEN Routes[CHOOSE i \in full : \A j \in full : i <= j].endpoint
        ELSE IF r.path # PathRoot /\ toggled # {} THEN "redirect_slashes"
        ELSE "not_found"

\* Router.app: the first full match is served; a path that matches with
\* another method is answered 405; a path whose slash-toggled form matches a
\* route is redirected; anything else is not found.
Router(r) ==
    LET full == {i \in DOMAIN Routes : Match(Routes[i], r.method, r.path) = "FULL"}
        partial == {i \in DOMAIN Routes : Match(Routes[i], r.method, r.path) = "PARTIAL"}
        toggled == {i \in DOMAIN Routes :
                        Match(Routes[i], r.method, ToggleSlash(r.path)) # "NONE"}
    IN  IF full # {}
        THEN Routes[CHOOSE i \in full : \A j \in full : i <= j].endpoint
        ELSE IF partial # {} THEN "method_not_allowed"
        ELSE IF r.path # PathRoot /\ toggled # {} THEN "redirect_slashes"
        ELSE "not_found"

\* Where each request ends up: in the CORS middleware, or where the router
\* sends it.
DispatchTable ==
    [r \in Requests |-> IF IsPreflight(r) THEN "preflight" ELSE Router(r)]

Dispatch(r) == DispatchTable[r]

DocumentationEndpoints == {"openapi", "swagger_ui_html", "swagger_ui_redirect", "redoc_html"}

-----------------------------------------------------------------------------
(* Actions.  The handlers are coroutines without an await, so each runs to  *)
(* completion on the event loop: requests dispatched concurrently are       *)
(* answered one whole handler after another, in any order.                  *)

Init ==
    /\ now \in InitTimes
    /\ START_TIME = now
    /\ moves = 0
    /\ request = NoRequest
    /\ response = NoResponse

\* The wall clock changes while no handler runs.
Tick(step) ==
    /\ moves < MaxClockMoves
    /\ now' = now + step
    /\ moves' = moves + 1
    /\ UNCHANGED <<START_TIME, request, response>>

\* The clock between a handler's first and last reading.
Elapse(d) ==
    /\ d # 0 => moves < MaxClockMoves
    /\ now' = now + d
    /\ moves' = IF d = 0 THEN moves ELSE moves + 1

\* CORSMiddleware answers a preflight request.
Preflight(r) ==
    /\ Dispatch(r) = "preflight"
    /\ request' = r
    /\ response' = preflight_response(r)
    /\ UNCHANGED <<now, START_TIME, moves>>

\* GET / served by get_service_information.
ServiceInformation(r, cpu, d) ==
    /\ Dispatch(r) = "get_service_information"
    /\ Elapse(d)
    /\ request' = r
    /\ response' = [status |-> 200, body |-> get_service_information(r, now, now + d, cpu)]
    /\ UNCHANGED START_TIME

\* GET / where get_service_information raises: the 500 handler answers.
ServiceInformationRaises(r, exc) ==
    /\ Dispatch(r) = "get_service_information"
    /\ request' = r
    /\ response' = internal_error_handler(r, exc)
    /\ UNCHANGED <<now, START_TIME, moves>>

\* GET /health by a handler that assigns START_TIME.
HealthCheck_restarts(r, d) ==
    /\ Dispatch(r) = "health_check"
    /\ Elapse(d)
    /\ request' = r
    /\ response' = [status |-> 200, body |-> health_check(now, now + d)]
    /\ START_TIME' = now

\* GET /health served by health_check.
HealthCheck(r, d) ==
    /\ Dispatch(r) = "health_check"
    /\ Elapse(d)
    /\ request' = r
    /\ response' = [status |-> 200, body |-> health_check(now, now + d)]
    /\ UNCHANGED START_TIME

\* The schema and the documentation pages, served by the framework.
Documentation(r) ==
    /\ Dispatch(r) \in DocumentationEndpoints
    /\ request' = r
    /\ response' = [status |-> 200, body |-> [kind |-> Dispatch(r)]]
    /\ UNCHANGED <<now, START_TIME, moves>>

\* A registered path with a method its route does not take: HTTPException(405),
\* for which no handler is registered, so the framework's default one answers.
MethodNotAllowed(r) ==
    /\ Dispatch(r) = "method_not_allowed"
    /\ request' = r
    /\ response' = [status |-> 405,
                    body |-> [kind |-> "detail", detail |-> "Method Not Allowed"]]
    /\ UNCHANGED <<now, START_TIME, moves>>

\* A path that is a route once its trailing slash is added or removed.
RedirectSlashes(r) ==
    /\ Dispatch(r) = "redirect_slashes"
    /\ request' = r
    /\ response' = [status |-> 307,
                    body |-> [kind |-> "redirect", location |-> ToggleSlash(r.path)]]
    /\ UNCHANGED <<now, START_TIME, moves>>

\* No route: HTTPException(404), answered by not_found_handler.
NotFound(r) ==
    /\ Dispatch(r) = "not_found"
    /\ request' = r
    /\ response' = not_found_handler(r)
    /\ UNCHANGED <<now, START_TIME, moves>>

Next ==
    \/ \E step \in ClockSteps : Tick(step)
    \/ \E r \in Requests : Preflight(r)
    \/ \E r \in Requests, cpu \in CpuCounts, d \in HandlerElapsed : ServiceInformation(r, cpu, d)
    \/ \E r \in Requests, exc \in Exceptions : ServiceInformationRaises(r, exc)
    \/ \E r \in Requests, d \in HandlerElapsed : HealthCheck(r, d)
    \/ \E r \in Requests : Documentation(r)
    \/ \E r \in Requests : MethodNotAllowed(r)
    \/ \E r \in Requests : RedirectSlashes(r)
    \/ \E r \in Requests : NotFound(r)

Spec == Init /\ [][Next]_vars

-----------------------------------------------------------------------------
(* Properties *)

\* A response that carries uptime_seconds, and the value it carries.
HasUptime(resp) ==
    resp.status = 200 /\ resp.body.kind \in {"health", "service_information"}

UptimeOf(resp) ==
    IF resp.body.kind = "health"
    THEN resp.body.uptime_seconds
    ELSE resp.body.runtime.uptime_seconds

\* A step in which the application answers a request.
Answers == request' # request \/ response' # response

\* The instant an isoformat() string denotes.
ParseIso(s) ==
    LET frac == IF Len(s) = 6 THEN 0 ELSE s[7]
    IN  ((s[1] * 24 + s[3]) * SecondsPerHour + s[4] * SecondsPerMinute + s[5])
            * TicksPerSecond + frac

Range(seq) == {seq[i] : i \in DOMAIN seq}

\* The paths the application has a route for.
RegisteredPaths ==
    {PathRoot, PathHealth, PathDocs, PathRedoc, PathOpenapi, <<"docs", "oauth2-redirect">>}

\* The body of the custom 404 handler, for the request it answers.
IsNotFoundBody(resp, req) ==
    /\ resp.status = 404
    /\ resp.body.kind = "error"
    /\ resp.body.error = "Not Found"
    /\ resp.body.message[2] = req.path
    /\ {"/", "/health"} \subseteq Range(resp.body.available_endpoints)

\* C1: every response that reports uptime_seconds reports a value >= 0, and
\* one no smaller than the uptime_seconds of the response before it.
C1_UptimeNonDecreasing ==
    [][HasUptime(response') =>
          /\ UptimeOf(response') >= 0
          /\ HasUptime(response) => UptimeOf(response') >= UptimeOf(response)]_vars

\* C2: for every START_TIME and every current time, get_uptime returns
\* seconds = floor(now - START_TIME) and the human string "H hours, M minutes"
\* with H = seconds div 3600, M = (seconds mod 3600) div 60, 0 <= M <= 59 and
\* H*3600 + M*60 <= seconds < H*3600 + M*60 + 60.
C2_UptimeIsFloor ==
    LET u == get_uptime(now)
        H == u.human[1]
        M == u.human[3]
    IN  /\ u.seconds * TicksPerSecond <= now - START_TIME
        /\ now - START_TIME < (u.seconds + 1) * TicksPerSecond
        /\ u.human = <<u.seconds \div 3600, " hours, ", (u.seconds % 3600) \div 60, " minutes">>
        /\ 0 <= M /\ M <= 59
        /\ H * 3600 + M * 60 <= u.seconds
        /\ u.seconds < H * 3600 + M * 60 + 60

\* C3: every GET /health request, whatever was requested before it, is
\* answered 200 with status "healthy", the uptime at the handler's first clock
\* reading and the time of its second clock reading as an ISO timestamp that
\* ends in "+00:00"; nothing in the answer comes from an earlier request.
C3_HealthAlwaysHealthy ==
    [][(Answers /\ request'.method = "GET" /\ request'.path = PathHealth) =>
          /\ response'.status = 200
          /\ response'.body.kind = "health"
          /\ response'.body.status = "healthy"
          /\ response'.body.uptime_seconds = IntTotalSeconds(now - START_TIME)
          /\ response'.body.timestamp[2] = "T"
          /\ response'.body.timestamp[Len(response'.body.timestamp)] = "+00:00"
          /\ ParseIso(response'.body.timestamp) = now']_vars

C3_Witness ==
    /\ request.method = "GET" /\ request.path = PathHealth
    /\ response.status = 200
    /\ response.body.uptime_seconds >= SecondsPerHour
    /\ Len(response.body.timestamp) = 8

\* C4 as stated: a request with any method to any path other than "/",
\* "/health", "/docs" and "/redoc" is answered 404 with error "Not Found", a
\* message naming the path and available_endpoints containing "/" and "/health".
C4_Original ==
    (request # NoRequest /\ request.path \notin {PathRoot, PathHealth, PathDocs, PathRedoc})
        => IsNotFoundBody(response, request)

\* C4 amended: a request that is not a CORS preflight request, whose path is
\* no route of the application and does not become one when its trailing
\* slash is added or removed, is answered 404 with error "Not Found", a
\* message naming the path and available_endpoints containing "/" and "/health".
C4_NotFound ==
    ( /\ request # NoRequest
      /\ ~IsPreflight(request)
      /\ request.path \notin RegisteredPaths
      /\ ToggleSlash(request.path) \notin RegisteredPaths )
        => IsNotFoundBody(response, request)

C4_Witness ==
    /\ request.method = "POST" /\ request.path = PathMissing
    /\ IsNotFoundBody(response, request)

\* C5 as stated: a request to "/" or "/health" with a method other than GET
\* is answered 405.
C5_Original ==
    (request.path \in {PathRoot, PathHealth} /\ request.method # "GET")
        => response.status = 405

\* C5 amended: a request to "/" or "/health" with a method other than GET
\* that is not a CORS preflight request is answered 405 with the framework's
\* body, not 200 and not the custom 404 or 500 body; and 405 is only ever the
\* answer to a path the application has a route for.
C5_MethodNotAllowed ==
    /\ ( /\ request.path \in {PathRoot, PathHealth}
         /\ request.method # "GET"
         /\ ~IsPreflight(request) )
          => (response.status = 405 /\ response.body.kind = "detail")
    /\ response.status = 405 => request.path \in RegisteredPaths

C5_Witness ==
    /\ request.method = "POST" /\ request.path = PathRoot
    /\ response.status = 405

\* C6: the request section of every GET / response echoes the request it
\* answers: the User-Agent header verbatim or "unknown" when absent, the
\* client address or "unknown" when there is none, the method and the path.
C6_RequestEcho ==
    (request.method = "GET" /\ request.path = PathRoot /\ response.status = 200) =>
        /\ response.body.request.user_agent =
              (IF "user-agent" \in DOMAIN request.headers
               THEN request.headers["user-agent"] ELSE "unknown")
        /\ response.body.request.client_ip =
              (IF request.client = None THEN "unknown" ELSE request.client[1])
        /\ response.body.request.method = "GET"
        /\ response.body.request.path = request.path

C6_Witness ==
    /\ request.method = "GET" /\ request.path = PathRoot
    /\ request.headers = ("user-agent" :> "")
    /\ request.client = None
    /\ response.status = 200

\* C7: every GET / response carries the same endpoints list: "/", "/health",
\* "/docs", "/redoc" in that order, each with method GET and a description.
C7_EndpointsFixed ==
    response.body.kind = "service_information" =>
        /\ [i \in DOMAIN response.body.endpoints |-> response.body.endpoints[i].path]
              = <<"/", "/health", "/docs", "/redoc">>
        /\ \A i \in DOMAIN response.body.endpoints :
              /\ DOMAIN response.body.endpoints[i] = {"path", "method", "description"}
              /\ response.body.endpoints[i].method = "GET"
              /\ response.body.endpoints[i].description # ""

C7_Witness ==
    /\ response.body.kind = "service_information"
    /\ now # START_TIME
    /\ request.headers = PreflightHeaders

\* C8: system.cpu_count of every GET / response is a positive integer.
C8_CpuCountPositive ==
    response.body.kind = "service_information" => response.body.system.cpu_count > 0

\* C9: whenever get_service_information raises, the answer is 500, and every
\* 500 answer is the same body: error "Internal Server Error" and one fixed
\* message, whatever the exception and the request.
C9_GenericInternalError ==
    [][/\ ( /\ request' \in Requests
            /\ \E exc \in Exceptions : ServiceInformationRaises(request', exc) )
              => response'.status = 500
       /\ response'.status = 500 =>
              response'.body =
                  [kind |-> "error",
                   error |-> "Internal Server Error",
                   message |-> <<"An unexpected error occurred. Please try again later.">>]
      ]_vars

C9_Witness ==
    /\ response.status = 500
    /\ request.headers = ("user-agent" :> "curl/8.0")

\* C10: no step changes START_TIME, which keeps the value it was given at
\* initialization.
C10_StartTimeWriteOnce ==
    [][START_TIME' = START_TIME]_vars

C10_Witness ==
    /\ START_TIME \in InitTimes
    /\ now # START_TIME
    /\ response.status = 200 /\ response.body.kind = "health"

====
